---- MODULE Spec2Model ----
(***************************************************************************)
(* The Uno game engine of src/src/uno.js (Uno.Game and its private         *)
(* functions) as a state machine.                                          *)
(*                                                                         *)
(* A card is a record [face, color]; faces keep the numeric bit-field of   *)
(* Uno.CardFace so that the mask tests of the code are computed, not       *)
(* assumed.  `discarded` is the array of all cards not in a hand (draw     *)
(* pile and discard pile are one circulating pool in the code).            *)
(***************************************************************************)
EXTENDS Integers, Sequences, FiniteSets, TLC

(***************************************************************************)
(* Uno.Color                                                               *)
(***************************************************************************)
NONE == 0
RED == 1
BLUE == 2
GREEN == 3
YELLOW == 4

Color == [NONE |-> NONE, RED |-> RED, BLUE |-> BLUE, GREEN |-> GREEN, YELLOW |-> YELLOW]

\* colorPairs = Object.entries(self.Color), in insertion order
colorPairs == << <<"NONE", NONE>>, <<"RED", RED>>, <<"BLUE", BLUE>>,
                 <<"GREEN", GREEN>>, <<"YELLOW", YELLOW>> >>

(***************************************************************************)
(* Uno.CardFace: effect bits above bit 12, base value in the low 12 bits.  *)
(***************************************************************************)
EFFECT_MASK == 1044480
BASE_MASK == 4095
WILD_EFFECT == 4096
SKIP_EFFECT == 8192
REVERSE_EFFECT == 16384
DRAW_TWO_EFFECT == 32768
DRAW_FOUR_EFFECT == 65536
SKIP == 8208
DRAW_TWO == 40992
REVERSE == 16432
WILD == 4160
DRAW_FOUR == 77904

CardFace == [SKIP |-> SKIP, DRAW_TWO |-> DRAW_TWO, DRAW_2 |-> DRAW_TWO,
             REVERSE |-> REVERSE, WILD |-> WILD, DRAW_FOUR |-> DRAW_FOUR,
             DRAW_4 |-> DRAW_FOUR,
             ZERO |-> 0, ONE |-> 1, TWO |-> 2, THREE |-> 3, FOUR |-> 4,
             FIVE |-> 5, SIX |-> 6, SEVEN |-> 7, EIGHT |-> 8, NINE |-> 9,
             D0 |-> 0, D1 |-> 1, D2 |-> 2, D3 |-> 3, D4 |-> 4,
             D5 |-> 5, D6 |-> 6, D7 |-> 7, D8 |-> 8, D9 |-> 9]

\* the keys of cardFacePairs (the digit keys "0".."9" are written D0..D9)
FaceKeys == DOMAIN CardFace

\* the fifteen real card faces
Faces == {CardFace[k] : k \in FaceKeys}

Colors == {NONE, RED, BLUE, GREEN, YELLOW}

\* `face & mask` for a mask that is a single bit: true iff the bit is set
HasEffect(face, mask) == (face \div mask) % 2 = 1

\* `face & BASE_MASK` for the low-bits mask BASE_MASK = 2^k - 1
BaseOf(face, mask) == face % (mask + 1)

\* new self.Card(face, color)
Card(face, color) == [face |-> face, color |-> color]

NoCard == [face |-> -1, color |-> -1]

IsWild(card) == HasEffect(card.face, WILD_EFFECT)

(***************************************************************************)
(* getHand: the deck, in the order the array literal lists it.             *)
(***************************************************************************)
DeckColors == <<RED, GREEN, YELLOW, BLUE>>

\* the faces that come twice per color, in the order of the literal
PairFaces == <<1, 2, 3, 4, 5, 6, 7, 8, 9, DRAW_TWO, SKIP, REVERSE>>

RECURSIVE PairsFrom(_)
PairsFrom(i) ==
  IF i > Len(PairFaces) THEN <<>>
  ELSE [j \in 1..8 |-> Card(PairFaces[i], DeckColors[(j + 1) \div 2])]
       \o PairsFrom(i + 1)

\* a deck in which the zeros come twice per color as well
getHandOfPairs ==
  [j \in 1..8 |-> Card(0, DeckColors[(j + 1) \div 2])]
  \o PairsFrom(1)
  \o [j \in 1..4 |-> Card(WILD, NONE)]
  \o [j \in 1..4 |-> Card(DRAW_FOUR, NONE)]

getHand ==
  [j \in 1..4 |-> Card(0, DeckColors[j])]
  \o PairsFrom(1)
  \o [j \in 1..4 |-> Card(WILD, NONE)]
  \o [j \in 1..4 |-> Card(DRAW_FOUR, NONE)]

(***************************************************************************)
(* checkCard(card, card2): the legality test used for NPC plays.           *)
(***************************************************************************)
checkCardWeak(card, card2) ==
  IF HasEffect(card.face, WILD_EFFECT) THEN TRUE
  ELSE BaseOf(card.face, 15) = BaseOf(card2.face, 15)
       \/ card.color = card2.color

checkCard(card, card2) ==
  IF HasEffect(card.face, WILD_EFFECT) THEN TRUE
  ELSE LET cardFace == BaseOf(card.face, BASE_MASK)
           card2Face == BaseOf(card2.face, BASE_MASK)
       IN (cardFace = card2Face) \/ (card.color = card2.color)

\* the test playCard applies to a parsed human play (negation of the
\* rejection condition at lines 1148-1150)
humanCheck(parsed, top) ==
  (parsed.face = top.face)
  \/ (HasEffect(parsed.face, WILD_EFFECT) \/ parsed.color = top.color)

(***************************************************************************)
(* Constants of the module and of the model.                               *)
(***************************************************************************)
\* maxPlayerCount
maxPlayerCount == 10

\* the number of cards startGame deals to each player
DealSize == 7

\* Math.random() is modelled as r / RandDen for an integer 0 <= r < RandDen
RandDen == 1000

\* the values Math.random() takes in the model: 0, 1/2, 0.828 and the
\* largest value below 1.  The generator is an input of the model: a
\* behaviour keeps the value it starts with.
RandomValues ==
  {0, RandDen \div 2, (207 * RandDen) \div 250, RandDen - 1}

\* Math.floor(Math.random() * n)
RandIndex(r, n) == (r * n) \div RandDen

\* Math.random() < probCallUno and Math.random() <= probCallUno, with the
\* default probCallUno = 0.5 of Uno.NPC
RandBelowProb(r) == 2 * r < RandDen
RandAtMostProb(r) == 2 * r <= RandDen

(***************************************************************************)
(* The state of one Uno.Game.  turn, previousTurn are 0-based indices as   *)
(* in the code; players[turn] of the code is PlayerAt(s, s.turn).          *)
(***************************************************************************)
VARIABLES
  players,        \* players: sequence of [id, npc, bot, hand, calledUno]
  discarded,      \* discarded: all cards not in a hand and not the top card
  topCard,        \* topCard, NoCard while null
  turn,           \* turn
  previousTurn,   \* previousTurn
  direction,      \* direction
  started,        \* game.started
  collector,      \* currentCollector: "lobby", "game" or "none"
  timers,         \* pending setTimeout callbacks, in the order they were set
  deleted,        \* game.end() has run: the channels are deleted
  starts,         \* how many "uno start" commands were accepted so far
  moves,          \* how many turns were taken so far: plays, draws, NPC turns
  rand,           \* the value Math.random() returns, as r of r / RandDen
  last,           \* history: the handler that ran last, for the properties
  order,          \* history: the plays since the first turn of the game
  probe           \* a pair of cards and what the two legality tests say

gameVars == <<players, discarded, topCard, turn, previousTurn, direction,
              started, collector, timers, deleted>>

vars == <<players, discarded, topCard, turn, previousTurn, direction,
          started, collector, timers, deleted, starts, moves, rand, last,
          order, probe>>

\* the game state as one record, threaded through the functions of the code;
\* threw becomes TRUE when a TypeError is thrown, which abandons the handler
\* and keeps the assignments made so far
State ==
  [players |-> players, discarded |-> discarded, topCard |-> topCard,
   turn |-> turn, previousTurn |-> previousTurn, direction |-> direction,
   started |-> started, collector |-> collector, timers |-> timers,
   deleted |-> deleted, starts |-> starts,
   moves |-> moves, threw |-> FALSE]

HasPlayer(s, i) == i >= 0 /\ i < Len(s.players)

\* the delays of the timers: setTimeout(startGame), the "UNO" call of an
\* NPC, the turn of an NPC, and finishSetup after a game
startDelay == 0
delayCallUno == 3000
npcDelay == 5000
finishDelay == 5000

\* setTimeout(callback, delay): the callback joins the pending timers
SetTimer(s, kind, id, delay) ==
  [s EXCEPT !.timers = Append(@, [kind |-> kind, id |-> id, delay |-> delay])]

\* the timer at position i can fire: every timer that was set before it with
\* the same or a shorter delay has fired
CanFire(ts, i) == \A j \in 1..(i - 1) : ts[j].delay > ts[i].delay

\* the timers of a kind that can fire
Ready(ts, kind) == {i \in 1..Len(ts) : ts[i].kind = kind /\ CanFire(ts, i)}

PlayerAt(s, i) == s.players[i + 1]

Throw(s) == [s EXCEPT !.threw = TRUE]

\* new Uno.Player(member, game)
Player(id) ==
  [id |-> id, npc |-> FALSE, bot |-> FALSE, hand |-> <<>>, calledUno |-> FALSE]

\* new Uno.NPC(name, game, options)
NPC(id, bot) ==
  [id |-> id, npc |-> TRUE, bot |-> bot, hand |-> <<>>, calledUno |-> FALSE]

RemoveAt(seq, i) == SubSeq(seq, 1, i - 1) \o SubSeq(seq, i + 1, Len(seq))

(***************************************************************************)
(* The comparator of the hand sort in drawCards: by face, then by color.   *)
(***************************************************************************)
CardBefore(a, b) ==
  IF a.face = b.face THEN a.color <= b.color ELSE a.face < b.face

\* the place of hand[i] in the sorted hand; equal cards keep their order
SortRank(hand, i) ==
  Cardinality({j \in 1..Len(hand) :
                 \/ ~CardBefore(hand[i], hand[j])
                 \/ hand[j] = hand[i] /\ j <= i})

SortHand(hand) ==
  LET ranked == {<<SortRank(hand, i), i>> : i \in 1..Len(hand)}
  IN [k \in 1..Len(hand) |-> hand[(CHOOSE p \in ranked : p[1] = k)[2]]]

(***************************************************************************)
(* drawCards(num, silent)                                                  *)
(***************************************************************************)
\* the loop of drawCards: [pile, drawn] after at most num draws
RECURSIVE DrawLoop(_, _, _, _)
DrawLoop(pile, drawn, num, r) ==
  IF num = 0 \/ Len(pile) = 0 THEN [pile |-> pile, drawn |-> drawn]
  ELSE LET i == RandIndex(r, Len(pile)) + 1
           single == IF HasEffect(pile[i].face, WILD_EFFECT)
                     THEN [pile[i] EXCEPT !.color = NONE]
                     ELSE pile[i]
       IN DrawLoop(RemoveAt(pile, i), Append(drawn, single), num - 1, r)

\* the cards are drawn and calledUno stays as it was
drawCardsKeepCall(s, num, r) ==
  IF s.threw THEN s
  ELSE LET d == DrawLoop(s.discarded, <<>>, num, r)
       IN IF ~HasPlayer(s, s.turn) THEN Throw([s EXCEPT !.discarded = d.pile])
          ELSE [s EXCEPT !.discarded = d.pile,
                         !.players[s.turn + 1].hand =
                           IF s.players[s.turn + 1].npc THEN d.drawn \o @
                           ELSE SortHand(d.drawn \o @)]

drawCards(s, num, r) ==
  IF s.threw THEN s
  ELSE LET Take(p, drawn) ==
             [p EXCEPT !.hand = IF p.npc THEN drawn \o @
                                ELSE SortHand(drawn \o @),
                       !.calledUno = FALSE]
           Give(d) ==
             IF ~HasPlayer(s, s.turn) THEN Throw([s EXCEPT !.discarded = d.pile])
             ELSE [s EXCEPT !.discarded = d.pile,
                            !.players[s.turn + 1] = Take(@, d.drawn)]
       IN Give(DrawLoop(s.discarded, <<>>, num, r))

(***************************************************************************)
(* nextTurn(skip)                                                          *)
(***************************************************************************)
\* a turn that does not pass on
StayTurn(t, dir, n) == t

\* lines 990-992: turn += direction, wrapped into 0 .. players.length - 1
StepTurn(t, dir, n) ==
  LET t1 == t + dir
      t2 == IF t1 < 0 THEN n - 1 ELSE t1
  IN IF t2 > n - 1 THEN 0 ELSE t2

nextTurn(s, skip, r) ==
  IF s.threw THEN s
  ELSE IF s.turn > -1 /\ ~HasPlayer(s, s.turn) THEN Throw(s)
  ELSE LET n == Len(s.players)
           t0 == IF s.turn = -1 THEN RandIndex(r, n) ELSE s.turn
           t3 == StepTurn(t0, s.direction, n)
           s1 == [s EXCEPT !.turn = t3]
       IN IF ~HasPlayer(s1, t3) THEN Throw(s1)
          ELSE IF ~skip /\ PlayerAt(s1, t3).npc
               THEN SetTimer(s1, "play", "", npcDelay)
               ELSE s1

\* the cards are drawn and the turn stays
drawAndStay(s, num, r) == drawCards(s, num, r)

\* drawAndSkip(num = 1)
drawAndSkip(s, num, r) == nextTurn(drawCards(s, num, r), FALSE, r)

(***************************************************************************)
(* parseToCard(text).  A text is a sequence of tokens: a key of CardFace,  *)
(* a key of Color, or "JUNK" (a word neither regular expression matches).  *)
(* colorRegExp is built from all keys of Color, so it matches "NONE";      *)
(* cardFaceRegExp matches the "ONE" inside "NONE".                         *)
(***************************************************************************)
ColorKeys == DOMAIN Color

Tokens == FaceKeys \cup ColorKeys \cup {"JUNK"}

\* replaced.match(colorRegExp): the color keys matched, in order
colorMatch(text) == SelectSeq(text, LAMBDA t : t \in ColorKeys)

\* replaced.match(cardFaceRegExp): the face keys matched, in order
faceMatch(text) ==
  LET hits == SelectSeq(text, LAMBDA t : t \in FaceKeys \/ t = "NONE")
  IN [i \in 1..Len(hits) |-> IF hits[i] = "NONE" THEN "ONE" ELSE hits[i]]

parseToCard(text) ==
  LET cm == colorMatch(text)
      fm == faceMatch(text)
  IN IF Len(fm) = 0 THEN NoCard
     ELSE IF Len(fm) # 1 THEN NoCard
     ELSE LET color == IF Len(cm) = 1 THEN Color[cm[1]] ELSE NONE
              face == CardFace[fm[1]]
          IN IF ~HasEffect(face, WILD_EFFECT) /\ color = NONE THEN NoCard
             ELSE Card(face, color)

(***************************************************************************)
(* callUno(caller)                                                         *)
(***************************************************************************)
\* the call is announced and calledUno stays as it was
SetNothing(s, i) == s

\* players[i].calledUno = true (lines 1291 and 1299)
SetCalled(s, i) == [s EXCEPT !.players[i + 1].calledUno = TRUE]

\* a player with cards is penalized whether or not they called
forgotAlways(prev) == Len(prev.hand) >= 1

\* no player is ever penalized
forgotNever(prev) == FALSE

\* line 1303: the previous player holds one card and has not called
forgot(prev) == ~prev.calledUno /\ Len(prev.hand) = 1

\* the penalty leaves the turn with the participant who drew
penaltyTurnStays(tmp, s) == s

\* lines 1308-1311: tmp = turn; turn = previousTurn; drawCards(2); turn = tmp
penaltyTurn(tmp, s) == IF s.threw THEN s ELSE [s EXCEPT !.turn = tmp]

callUno(s, caller, r) ==
  IF s.threw THEN s
  ELSE IF ~HasPlayer(s, s.turn) THEN Throw(s)
  ELSE LET cur == PlayerAt(s, s.turn)
           Penalize(s2) ==
             IF forgot(PlayerAt(s2, s2.previousTurn))
             THEN penaltyTurn(s2.turn,
                              drawCards([s2 EXCEPT !.turn = s2.previousTurn],
                                        2, r))
             ELSE s2
           Previous(s1) ==
             IF ~(s1.previousTurn > -1) THEN s1
             ELSE IF ~HasPlayer(s1, s1.previousTurn) THEN Throw(s1)
             ELSE LET prev == PlayerAt(s1, s1.previousTurn)
                  IN Penalize(IF prev.id = caller /\ ~prev.calledUno
                                 /\ Len(prev.hand) = 1
                              THEN SetCalled(s1, s1.previousTurn) ELSE s1)
       IN Previous(IF cur.id = caller /\ ~cur.calledUno /\ Len(cur.hand) = 2
                   THEN SetCalled(s, s.turn) ELSE s)

(***************************************************************************)
(* endGame()                                                               *)
(***************************************************************************)
RECURSIVE AllHands(_)
AllHands(ps) == IF ps = <<>> THEN <<>> ELSE Head(ps).hand \o AllHands(Tail(ps))

endGame(s) ==
  IF s.threw THEN s
  ELSE [SetTimer(s, "finish", "", finishDelay) EXCEPT
                 !.started = FALSE,
                 !.turn = -1,
                 !.discarded = @ \o AllHands(s.players),
                 !.players = [i \in 1..Len(s.players) |->
                                [s.players[i] EXCEPT !.hand = <<>>]]]

(***************************************************************************)
(* playCard(text).  The result is [s, ret, played]: the state, whether the *)
(* call returned true (the game has ended), and the card that was put on   *)
(* top (NoCard when the call played nothing).                              *)
(***************************************************************************)
Result(s, ret, card) == [s |-> s, ret |-> ret, played |-> card]

\* the random color of lines 1081-1083 and 1116-1117
RandomColor(r) == colorPairs[RandIndex(r, Len(colorPairs) - 1) + 2][2]

\* the colors of the hand that are not NONE, without repetition, in order
RECURSIVE HandColors(_, _)
HandColors(hand, acc) ==
  IF hand = <<>> THEN acc
  ELSE LET c == Head(hand).color
       IN HandColors(Tail(hand),
                     IF c # NONE /\ \A i \in 1..Len(acc) : acc[i] # c
                     THEN Append(acc, c) ELSE acc)

\* the smallest index whose card passes checkCard, 0 when there is none
NpcSelectNewest(hand, top, i) ==
  LET legal == {j \in 1..i : checkCard(hand[j], top)}
  IN IF legal = {} THEN 0
     ELSE CHOOSE j \in legal : \A k \in legal : j <= k

\* the do-while of lines 1097-1102: the largest index whose card passes
\* checkCard against topCard, 0 when there is none (1-based)
RECURSIVE NpcSelect(_, _, _)
NpcSelect(hand, top, i) ==
  IF i = 0 THEN 0
  ELSE IF checkCard(hand[i], top) THEN i
  ELSE NpcSelect(hand, top, i - 1)

\* a Reverse that never counts as a Skip
skippingNever(card, n) == FALSE

\* lines 1200-1206: skipping, true for a Reverse between two players
skipping(card, n) == HasEffect(card.face, REVERSE_EFFECT) /\ n = 2

\* draws of 2 cards for either kind of draw card
\* a card makes nobody draw
drawEffectsNone(s, card, r) == s

drawEffectsOfTwo(s, card, r) ==
  IF HasEffect(card.face, DRAW_TWO_EFFECT)
     \/ HasEffect(card.face, DRAW_FOUR_EFFECT)
  THEN drawCards(s, 2, r) ELSE s

\* lines 1213-1221: drawCards(2) for a DrawTwo, drawCards(4) for a DrawFour
drawEffects(s, card, r) ==
  LET Four(s4) == IF HasEffect(card.face, DRAW_FOUR_EFFECT)
                  THEN drawCards(s4, 4, r) ELSE s4
  IN Four(IF HasEffect(card.face, DRAW_TWO_EFFECT)
          THEN drawCards(s, 2, r) ELSE s)

\* the turn passes once whatever the card is
resolveEffectsOnce(s, card, r) ==
  drawEffects(nextTurn([s EXCEPT !.previousTurn = s.turn,
                                 !.direction =
                                   IF HasEffect(card.face, REVERSE_EFFECT)
                                   THEN -1 * @ ELSE @],
                       FALSE, r),
              card, r)

\* the direction is flipped after the turn has passed on
resolveEffectsLate(s, card, r) ==
  LET skip == skipping(card, Len(s.players))
                \/ HasEffect(card.face, SKIP_EFFECT)
      Flip(s6) == IF HasEffect(card.face, REVERSE_EFFECT) /\ ~s6.threw
                  THEN [s6 EXCEPT !.direction = -1 * @] ELSE s6
      Pass(s5) == IF skip THEN nextTurn(s5, FALSE, r) ELSE s5
  IN Flip(Pass(drawEffects(nextTurn([s EXCEPT !.previousTurn = s.turn],
                                    skip, r), card, r)))

\* lines 1198-1226: previousTurn, the effects of the card, the next turn
resolveEffects(s, card, r) ==
  LET skip == skipping(card, Len(s.players))
                \/ HasEffect(card.face, SKIP_EFFECT)
      s2 == [s EXCEPT !.previousTurn = s.turn,
                      !.direction = IF HasEffect(card.face, REVERSE_EFFECT)
                                    THEN -1 * @ ELSE @]
      Pass(s5) == IF skip THEN nextTurn(s5, FALSE, r) ELSE s5
  IN Pass(drawEffects(nextTurn(s2, skip, r), card, r))

\* a card that keeps the color it had in the hand
KeepColor(card, color) == card

\* lines 1177-1179: if (color) card.color = color
Recolor(card, color) ==
  IF color # NONE THEN [card EXCEPT !.color = color] ELSE card

\* a new top card that takes the place of the old one, which is lost
replaceTop(s, card) == [s EXCEPT !.topCard = card]

\* lines 1171-1174: if (topCard) discarded.push(topCard); topCard = card
pushTop(s, card) ==
  [s EXCEPT !.discarded = IF s.topCard # NoCard
                          THEN Append(@, s.topCard) ELSE @,
            !.topCard = card]

\* lines 1170-1227: move the selected card (1-based index into the hand of
\* the current player, or into discarded for the first card) to the top
putOnTop(s, selected, color, r) ==
  LET seed == s.turn = -1
      hand == IF seed THEN s.discarded ELSE PlayerAt(s, s.turn).hand
      card == Recolor(hand[selected], color)
      rest == RemoveAt(hand, selected)
      After(s3) ==
        IF Len(IF seed THEN s3.discarded ELSE rest) = 0
        THEN IF seed THEN Result(Throw(s3), FALSE, card)
             ELSE IF PlayerAt(s3, s3.turn).npc
                  THEN Result(endGame(s3), TRUE, card)
                  ELSE Result(s3, TRUE, card)
        ELSE Result(resolveEffects(s3, card, r), FALSE, card)
  IN After(pushTop(IF seed THEN [s EXCEPT !.discarded = rest]
                   ELSE [s EXCEPT !.players[s.turn + 1].hand = rest],
                   card))

\* what lines 1076-1166 select: the card at the 1-based index selected, to
\* be played with the color; selected is 0 when the call returns there
Pick(s, selected, color) == [s |-> s, selected |-> selected, color |-> color]

\* a refusal that makes the player draw a card
rejectDrawing(s) == Pick(drawCards(s, 1, 0), 0, NONE)

\* lines 1128-1166: the message that refuses the play, and return false
reject(s) == Pick(s, 0, NONE)

playCard(s, text, r) ==
  LET First ==
        IF Len(s.discarded) = 0 THEN Pick(Throw(s), 0, NONE)
        ELSE LET selected == RandIndex(r, Len(s.discarded)) + 1
             IN Pick(s, selected,
                     IF HasEffect(s.discarded[selected].face, WILD_EFFECT)
                     THEN RandomColor(r) ELSE NONE)
      Again(s1) ==
        IF s1.threw THEN s1 ELSE SetTimer(s1, "play", "", npcDelay)
      Chosen(me, selected) ==
        IF selected = 0 THEN Pick(drawAndSkip(s, 1, r), 0, NONE)
        ELSE LET hc == HandColors(me.hand, <<>>)
             IN Pick(IF Len(me.hand) = 2 /\ RandAtMostProb(r)
                     THEN SetTimer(s, "call", me.id, delayCallUno) ELSE s,
                     selected,
                     IF HasEffect(me.hand[selected].face, WILD_EFFECT)
                     THEN IF Len(hc) = 0 THEN RandomColor(r)
                          ELSE hc[RandIndex(r, Len(hc)) + 1]
                     ELSE NONE)
      Npc(me) ==
        IF s.previousTurn > -1 /\ ~HasPlayer(s, s.previousTurn)
        THEN Pick(Throw(s), 0, NONE)
        ELSE IF s.previousTurn > -1
                /\ ~PlayerAt(s, s.previousTurn).calledUno
                /\ Len(PlayerAt(s, s.previousTurn).hand) = 1
                /\ RandBelowProb(r)
        THEN Pick(Again(callUno(s, me.id, r)), 0, NONE)
        ELSE Chosen(me, NpcSelect(me.hand, s.topCard, Len(me.hand)))
      Named(hand, parsed) ==
        IF parsed = NoCard THEN reject(s)
        ELSE IF HasEffect(parsed.face, WILD_EFFECT) /\ parsed.color = NONE
        THEN reject(s)
        ELSE IF ~humanCheck(parsed, s.topCard) THEN reject(s)
        ELSE LET hits == {i \in 1..Len(hand) :
                            parsed.face = hand[i].face
                            /\ (HasEffect(parsed.face, WILD_EFFECT)
                                \/ parsed.color = hand[i].color)}
             IN IF hits = {} THEN reject(s)
                ELSE Pick(s, CHOOSE i \in hits : \A j \in hits : i <= j,
                          IF HasEffect(parsed.face, WILD_EFFECT)
                          THEN parsed.color ELSE NONE)
      Human(me) ==
        IF Len(text) = 0 THEN reject(s)
        ELSE Named(me.hand, parseToCard(text))
      Put(pick) ==
        IF pick.selected = 0 THEN Result(pick.s, FALSE, NoCard)
        ELSE putOnTop(pick.s, pick.selected, pick.color, r)
      Player1(me) == IF me.npc THEN Npc(me) ELSE Human(me)
  IN IF s.threw THEN Result(s, FALSE, NoCard)
     ELSE Put(IF s.turn = -1 THEN First
              ELSE IF ~HasPlayer(s, s.turn) THEN Pick(Throw(s), 0, NONE)
              ELSE Player1(PlayerAt(s, s.turn)))

(***************************************************************************)
(* startGame(), finishSetup(), game.end()                                  *)
(***************************************************************************)
\* the dealing loop of startGame: for (turn = 0; turn < players.length; ...)
RECURSIVE DealFrom(_, _, _)
DealFrom(s, t, r) ==
  IF s.threw \/ t >= Len(s.players) THEN s
  ELSE DealFrom(drawCards([s EXCEPT !.turn = t,
                                    !.players[t + 1].hand = <<>>],
                          DealSize, r),
                t + 1, r)

startGame(s, r) ==
  LET First(s1) ==
        IF s1.threw THEN s1
        ELSE playCard([s1 EXCEPT !.turn = -1, !.started = TRUE], <<>>, r).s
      Listen(s3) == IF s3.threw THEN s3 ELSE [s3 EXCEPT !.collector = "game"]
  IN Listen(First(DealFrom(s, 0, r)))

\* the game stays without a collector
finishNothing(s) == s

finishSetup(s) == [s EXCEPT !.collector = "lobby"]

\* game.end(): stops the collector and deletes the channels and the game
end(s) == [s EXCEPT !.collector = "none", !.deleted = TRUE]

(***************************************************************************)
(* addPlayer(p), addNPCs(num), removeNPCs(num), removePlayer(p)            *)
(***************************************************************************)
\* the ids of the guild members of the model; BotIds are Discord bots
MakerId == "maker"
HumanIds == {"maker", "ann"}
BotIds == {"bot"}
MemberIds == HumanIds \cup BotIds

\* npcNames, cut to its first ten names
npcNames ==
  <<"HAL", "Jane", "HEX", "Deep Thought", "Com Pewter", "EDI", "JARVIS",
    "Samantha", "TARS", "Ava">>

\* the member is added however many players have joined
addPlayerAlways(s, p) ==
  [s |-> [s EXCEPT !.players =
            Append(@, IF p \in BotIds THEN NPC(p, TRUE) ELSE Player(p))],
   ok |-> TRUE]

\* [s, ok]: the state and the return value
addPlayer(s, p) ==
  IF Len(s.players) >= maxPlayerCount THEN [s |-> s, ok |-> FALSE]
  ELSE [s |-> [s EXCEPT !.players =
                 Append(@, IF p \in BotIds THEN NPC(p, TRUE) ELSE Player(p))],
        ok |-> TRUE]

\* forEach of an invite or of the member list: fail = fail || !addPlayer(m)
RECURSIVE addPlayers(_, _)
addPlayers(s, ms) ==
  IF ms = <<>> THEN [s |-> s, ok |-> TRUE]
  ELSE LET a == addPlayer(s, Head(ms))
       IN IF a.ok THEN addPlayers(a.s, Tail(ms)) ELSE a

\* the NPC name the do-while of addNPCs ends with: a name no player has.
\* NPC ids are "NPC" + name; the model writes the id as the name.
FreeNames(s) ==
  {i \in 1..Len(npcNames) :
     \A j \in 1..Len(s.players) : s.players[j].id # npcNames[i]}

RECURSIVE addNPCs(_, _, _)
addNPCs(s, num, r) ==
  IF num = 0 THEN [s |-> s, ok |-> TRUE]
  ELSE IF ~(Len(s.players) < maxPlayerCount) THEN [s |-> s, ok |-> FALSE]
  ELSE LET free == FreeNames(s)
           pick == CHOOSE i \in free :
                     Cardinality({j \in free : j < i})
                       = RandIndex(r, Cardinality(free))
       IN addNPCs([s EXCEPT !.players = Append(@, NPC(npcNames[pick], FALSE))],
                  num - 1, r)

RECURSIVE removeNPCsFrom(_, _, _)
removeNPCsFrom(ps, i, num) ==
  IF num = 0 \/ i > Len(ps) THEN ps
  ELSE IF ps[i].npc /\ ~ps[i].bot THEN removeNPCsFrom(RemoveAt(ps, i), i, num - 1)
  ELSE removeNPCsFrom(ps, i + 1, num)

removeNPCs(s, num) == [s EXCEPT !.players = removeNPCsFrom(@, 1, num)]

\* removePlayer(p) with p an id, or a member whose id is p.  The test
\* p.id == maker.id reads the property id of a string: it is never true.
removePlayer(s, p, r) ==
  IF s.threw THEN s
  ELSE IF Len(s.players) = 0 THEN s
  ELSE LET found == {i \in 1..Len(s.players) : s.players[i].id = p}
       IN IF found = {} THEN s
          ELSE LET index == (CHOOSE i \in found : \A j \in found : i <= j) - 1
                   s1 == [s EXCEPT
                            !.discarded = @ \o s.players[index + 1].hand,
                            !.players = RemoveAt(@, index + 1)]
               IN IF s1.turn = index THEN nextTurn(s1, FALSE, r) ELSE s1

\* m.mentions.members.forEach: removePlayer for every mention but the maker
RECURSIVE kick(_, _, _)
kick(s, ms, r) ==
  IF ms = <<>> THEN s
  ELSE kick(IF Head(ms) # MakerId THEN removePlayer(s, Head(ms), r) ELSE s,
            Tail(ms), r)

(***************************************************************************)
(* The handlers as actions.  last records which handler ran:               *)
(*   kind   the handler                                                    *)
(*   id     the author of the message, "" for a timer                      *)
(*   text   the text of an accepted play message                           *)
(*   played the card the handler put on top, NoCard if none                *)
(*   won    playCard returned true                                         *)
(*   threw  the handler ended by a TypeError                               *)
(*   again  the handler before it was the same low-hand call               *)
(* order records the first turn of the game and counts the plays of cards  *)
(* without effect since then; n is -1 once anything else moved the turn.   *)
(***************************************************************************)
Commit(s) ==
  /\ players' = s.players
  /\ discarded' = s.discarded
  /\ topCard' = s.topCard
  /\ turn' = s.turn
  /\ previousTurn' = s.previousTurn
  /\ direction' = s.direction
  /\ started' = s.started
  /\ collector' = s.collector
  /\ timers' = s.timers
  /\ deleted' = s.deleted
  /\ starts' = s.starts
  /\ moves' = s.moves
  /\ rand' = rand
  /\ probe' = probe

\* card.face & EFFECT_MASK is 0
IsPlain(face) == BaseOf(face, BASE_MASK) = face

NextOrder(kind, res) ==
  IF kind = "startGame" THEN [first |-> res.s.turn, n |-> 0]
  ELSE IF order.n < 0 THEN order
  ELSE IF kind \in {"call", "npcCall", "rejected", "ignored"} THEN order
  ELSE IF res.played # NoCard /\ IsPlain(res.played.face) /\ ~res.ret
          /\ ~res.s.threw
  THEN [order EXCEPT !.n = @ + 1]
  ELSE IF res.played = NoCard /\ Len(res.s.players) = Len(players)
          /\ res.s.turn = turn /\ Len(res.s.discarded) = Len(discarded)
  THEN order
  ELSE [order EXCEPT !.n = -1]

Step(kind, id, text, res) ==
  /\ Commit(res.s)
  /\ last' = [kind |-> kind, id |-> id, text |-> text, played |-> res.played,
              won |-> res.ret, threw |-> res.s.threw,
              again |-> kind = "call" /\ last.kind = "call" /\ last.id = id]
  /\ order' = NextOrder(kind, res)

Did(kind, id, s) == Step(kind, id, <<>>, Result(s, FALSE, NoCard))

\* new self.Game(mentions.concat([msg.member]), msg.member), once the
\* channels exist and the members of memberList have been added
InitMentions == {<<"ann">>, <<"ann", "bot">>}

NoProbe ==
  [card |-> NoCard, card2 |-> NoCard, checked |-> FALSE, npc |-> FALSE,
   human |-> FALSE]

GameInitOf(mentions, rands) ==
  /\ \E ms \in mentions :
       players = addPlayers([players |-> <<>>], ms \o <<MakerId>>).s.players
  /\ discarded = getHand
  /\ topCard = NoCard
  /\ turn = -1
  /\ previousTurn = -1
  /\ direction = 1
  /\ started = FALSE
  /\ collector = "lobby"
  /\ timers = <<>>
  /\ deleted = FALSE
  /\ starts = 0
  /\ moves = 0
  /\ rand \in rands
  /\ last = [kind |-> "create", id |-> MakerId, text |-> <<>>,
             played |-> NoCard, won |-> FALSE, threw |-> FALSE,
             again |-> FALSE]
  /\ order = [first |-> -1, n |-> -1]

GameInit == GameInitOf(InitMentions, RandomValues)

Init == GameInit /\ probe = NoProbe

(***************************************************************************)
(* Bounds of the model on the messages.                                    *)
(***************************************************************************)
\* the maker invites only while fewer players have joined, or when the
\* invite would take the game past maxPlayerCount
MaxSeats == 3

\* the maker starts at most MaxStarts games
MaxStarts == 2

\* the model follows the games for MaxTurns turns; the players of Spec name
\* the first card of their hand that can be played and draw when none can
MaxTurns == 14

\* the lists of members an invite or a kick in the lobby mentions
MentionLists == {<<"ann">>, <<"bot">>, <<MakerId>>, <<"ann", "bot">>}

\* the numbers an "uno npc add" or "uno npc remove" of the model names
NpcCounts == {1, 4}

\* the lists of members a kick during the game mentions
KickLists == {<<"ann">>, <<"bot">>}

\* players are kicked or leave within the first turns the model follows
MaxKickTurn == 1

\* the colors a play message of the model gives to a wild card
WildChoices == {GREEN, YELLOW}

\* the keys under which a play message of the model writes a face and a color
FaceKey(face) ==
  CHOOSE k \in {"ZERO", "ONE", "TWO", "THREE", "FOUR", "FIVE", "SIX", "SEVEN",
                "EIGHT", "NINE", "SKIP", "REVERSE", "DRAW_TWO", "WILD",
                "DRAW_FOUR"} : CardFace[k] = face

ColorKey(color) == CHOOSE k \in ColorKeys : Color[k] = color

\* the texts that name the card: "<color> <face>", for a wild card with each
\* color of WildChoices
NamesOf(card) ==
  IF HasEffect(card.face, WILD_EFFECT)
  THEN {<<ColorKey(c), FaceKey(card.face)>> : c \in WildChoices}
  ELSE {<<ColorKey(card.color), FaceKey(card.face)>>}

\* the positions of the hand whose card checkCard admits on top
LegalPositions(hand, top) == {i \in 1..Len(hand) : checkCard(hand[i], top)}

\* the card a play message of the model names when the player can play: the
\* first card of the hand that the top card admits
PickPositions(hand, top) ==
  LET legal == LegalPositions(hand, top)
  IN {i \in legal : \A j \in legal : i <= j}

\* texts of play messages that name no card of the hand: nothing, a word
\* that is no card, a wild card without a color, two faces, and two cards
ProbeTexts ==
  {<<>>, <<"JUNK">>, <<"WILD">>, <<"DRAW_FOUR">>, <<"FIVE">>,
   <<"WILD", "DRAW_FOUR">>, <<"BLUE", "SEVEN">>, <<"RED", "FIVE">>,
   <<"GREEN", "DRAW_TWO">>, <<"YELLOW", "REVERSE">>, <<"RED", "D1">>}

\* no card of the hand of the current player can be played
Stuck(s) ==
  /\ HasPlayer(s, s.turn)
  /\ LegalPositions(PlayerAt(s, s.turn).hand, s.topCard) = {}

\* the texts that name any card of the hand that the top card admits
LegalTexts(s) ==
  IF ~HasPlayer(s, s.turn) \/ s.topCard = NoCard THEN {}
  ELSE LET hand == PlayerAt(s, s.turn).hand
       IN UNION {NamesOf(hand[i]) : i \in LegalPositions(hand, s.topCard)}

\* the texts of the play messages of the current player in state s
PlayTexts(s) ==
  IF ~HasPlayer(s, s.turn) \/ s.topCard = NoCard THEN {}
  ELSE LET hand == PlayerAt(s, s.turn).hand
       IN UNION {NamesOf(hand[i]) : i \in PickPositions(hand, s.topCard)}
          \cup {t \in ProbeTexts : playCard(s, t, 0).played = NoCard}

(***************************************************************************)
(* The filter of the lobby collector (finishSetup, lines 673-786).         *)
(***************************************************************************)
InLobby == collector = "lobby" /\ ~deleted

\* "uno leave" of a member who is not the maker
LobbyLeave(a) ==
  /\ InLobby
  /\ Did("lobbyLeave", a, removePlayer(State, a, rand))

\* "uno start" of the maker, accepted whatever the number of players
LobbyStartAlone ==
  /\ InLobby
  /\ starts < MaxStarts
  /\ Did("start", MakerId,
         [SetTimer(State, "start", "", startDelay) EXCEPT
            !.collector = "none", !.starts = @ + 1])

\* "uno start" of the maker
LobbyStart ==
  /\ InLobby
  /\ starts < MaxStarts
  /\ IF Len(players) > 1
     THEN Did("start", MakerId,
              [SetTimer(State, "start", "", startDelay) EXCEPT
                 !.collector = "none", !.starts = @ + 1])
     ELSE Did("startRejected", MakerId, State)

\* "uno end" of the maker
LobbyEnd ==
  /\ InLobby
  /\ Did("end", MakerId, end(State))

\* "uno invite @..." of the maker
LobbyInvite(ms) ==
  /\ InLobby
  /\ Len(players) < MaxSeats \/ Len(players) + Len(ms) > maxPlayerCount
  /\ LET a == addPlayers(State, ms)
     IN Did(IF a.ok THEN "invite" ELSE "inviteRejected", MakerId, a.s)

\* "uno npc add <num>" of the maker
LobbyNpcAdd(num) ==
  /\ InLobby
  /\ LET a == addNPCs(State, num, rand)
     IN Did(IF a.ok THEN "npcAdd" ELSE "npcAddRejected", MakerId, a.s)

\* "uno npc remove <num>" of the maker
LobbyNpcRemove(num) ==
  /\ InLobby
  /\ Did("npcRemove", MakerId, removeNPCs(State, num))

\* "uno kick @..." of the maker
LobbyKick(ms) ==
  /\ InLobby
  /\ Did("kick", ms[1], kick(State, ms, rand))

(***************************************************************************)
(* The filter of the game collector (startGame, lines 833-902).            *)
(***************************************************************************)
InGame == collector = "game" /\ ~deleted

\* a message "uno!" of any member
GameCall(a) ==
  /\ InGame
  /\ Did("call", a, callUno(State, a, rand))

\* "uno end" of the maker
GameEnd ==
  /\ InGame
  /\ Did("end", MakerId, end(State))

\* "uno kick @..." of the maker
GameKick(ms) ==
  /\ InGame
  /\ moves <= MaxKickTurn
  /\ Did("kick", ms[1], kick(State, ms, rand))

\* line 868: the message is dropped unless its author is the current player
IsCurrent(s, a) == HasPlayer(s, s.turn) /\ PlayerAt(s, s.turn).id = a

Line868Throws(s) == s.turn >= 0 /\ ~HasPlayer(s, s.turn)

\* a play, draw or leave message of a member who is not the current player
GameIgnored(a) ==
  /\ InGame
  /\ ~IsCurrent(State, a)
  /\ Did("ignored", "", IF Line868Throws(State) THEN Throw(State) ELSE State)

\* "play <text>" or "uno play <text>" of the current player
GamePlay(a, text, max) ==
  /\ InGame
  /\ IsCurrent(State, a)
  /\ moves < max
  /\ LET Won(s) == [endGame(s) EXCEPT !.collector = "none"]
         Played(res) ==
           IF res.played = NoCard THEN Step("rejected", a, <<>>, res)
           ELSE Step("play", a, text,
                     [res EXCEPT !.s = [(IF res.ret THEN Won(@) ELSE @)
                                          EXCEPT !.moves = @ + 1]])
     IN Played(playCard(State, text, rand))

\* "uno leave" of the current player
GameLeave(a) ==
  /\ InGame
  /\ IsCurrent(State, a)
  /\ moves <= MaxKickTurn
  /\ Did("leave", a, removePlayer(State, a, rand))

\* "draw" of the current player
GameDraw(a, max) ==
  /\ InGame
  /\ IsCurrent(State, a)
  /\ moves < max
  /\ Did("draw", a, [drawAndSkip(State, 1, rand) EXCEPT !.moves = @ + 1])

(***************************************************************************)
(* The timer callbacks.                                                    *)
(***************************************************************************)
Fired(i) == [State EXCEPT !.timers = RemoveAt(@, i)]

\* setTimeout(startGame) of "uno start"
StartGameTimer ==
  \E i \in Ready(timers, "start") :
    LET Started(s) == Step("startGame", "", <<>>, Result(s, FALSE, s.topCard))
    IN Started(startGame(Fired(i), rand))

\* setTimeout(finishSetup, 5000) of endGame
FinishSetupTimer ==
  \E i \in Ready(timers, "finish") :
    Did("finishSetup", "", finishSetup(Fired(i)))

\* setTimeout(playCard, npcDelay) of nextTurn and of the NPC's catch
NpcTurnTimer(max) ==
  \E i \in Ready(timers, "play") :
    /\ moves < max
    /\ Step("npcTurn", "", <<>>,
            playCard([Fired(i) EXCEPT !.moves = @ + 1], <<>>, rand))

PlayCardTimer == NpcTurnTimer(MaxTurns)

\* setTimeout(function() { callUno(myId); }, delayCallUno) of an NPC
CallUnoTimer ==
  \E i \in Ready(timers, "call") :
    Did("npcCall", timers[i].id, callUno(Fired(i), timers[i].id, rand))

Next ==
  \/ LobbyStart
  \/ LobbyEnd
  \/ \E a \in HumanIds : GameCall(a)
  \/ GameEnd
  \/ \E ms \in KickLists : GameKick(ms)
  \/ \E a \in HumanIds : GameIgnored(a)
  \/ \E a \in HumanIds : \E text \in PlayTexts(State) :
       GamePlay(a, text, MaxTurns)
  \/ \E a \in HumanIds : GameLeave(a)
  \/ \E a \in HumanIds : Stuck(State) /\ GameDraw(a, MaxTurns)
  \/ StartGameTimer
  \/ FinishSetupTimer
  \/ PlayCardTimer
  \/ CallUnoTimer

Spec == Init /\ [][Next]_vars

(***************************************************************************)
(* The two legality tests on every pair of cards.                          *)
(***************************************************************************)
\* every face with every color
Cards == {Card(f, c) : f \in Faces, c \in Colors}

LawInit ==
  /\ GameInit
  /\ Len(players) = 2
  /\ rand = 0
  /\ probe \in {[card |-> c, card2 |-> t, checked |-> FALSE, npc |-> FALSE,
                 human |-> FALSE] : c \in Cards, t \in Cards}

\* checkCard(card, card2) of an NPC and the test of line 1148 of a human
LawCheck ==
  /\ ~probe.checked
  /\ probe' = [probe EXCEPT !.checked = TRUE,
                            !.npc = checkCard(probe.card, probe.card2),
                            !.human = humanCheck(probe.card, probe.card2)]
  /\ UNCHANGED <<gameVars, starts, moves, rand, last, order>>

LawNext == LawCheck

LawSpec == LawInit /\ [][LawNext]_vars

(***************************************************************************)
(* A game of ann and the maker whose players draw the whole pile: they     *)
(* send "draw" on every turn, and once the pile holds at most DrainLevel   *)
(* cards they also play any card of their hand that can be played.         *)
(***************************************************************************)
\* the players play once the pile holds at most DrainLevel cards
DrainLevel == 2

\* the turns the model follows
DrainTurns == 94

DrainInit ==
  /\ GameInit
  /\ Len(players) = 2
  /\ probe = NoProbe

DrainNext ==
  \/ LobbyStart
  \/ StartGameTimer
  \/ \E a \in HumanIds : GameDraw(a, DrainTurns)
  \/ \E a \in HumanIds : \E text \in LegalTexts(State) :
       /\ Len(discarded) <= DrainLevel
       /\ GamePlay(a, text, DrainTurns)

DrainSpec == DrainInit /\ [][DrainNext]_vars

(***************************************************************************)
(* A game of ann and the maker in which ann plays her hand down over an    *)
(* exhausted pile: both send "draw" until the pile holds at most ShedLevel *)
(* cards; from then on the maker still draws on every turn, and ann plays  *)
(* the first card of her hand that can be played while she holds at least  *)
(* two cards and draws otherwise.  Either of them sends "uno!" whenever a  *)
(* hand holds at most two cards.                                           *)
(***************************************************************************)
\* ann plays once the pile holds at most ShedLevel cards
ShedLevel == 4

\* the turns the model follows
ShedTurns == 230

\* the play message of ann in state s; she gives a wild card the color GREEN
ShedTexts(s) ==
  IF ~IsCurrent(s, "ann") \/ s.topCard = NoCard
     \/ Len(s.discarded) > ShedLevel
     \/ Len(PlayerAt(s, s.turn).hand) < 2
  THEN {}
  ELSE LET hand == PlayerAt(s, s.turn).hand
       IN {<<ColorKey(IF HasEffect(hand[i].face, WILD_EFFECT) THEN GREEN
                      ELSE hand[i].color), FaceKey(hand[i].face)>> :
             i \in PickPositions(hand, s.topCard)}

\* some hand holds at most two cards
LowHand(s) == \E i \in 1..Len(s.players) : Len(s.players[i].hand) <= 2

ShedNext ==
  \/ LobbyStart
  \/ StartGameTimer
  \/ \E a \in HumanIds : ShedTexts(State) = {} /\ GameDraw(a, ShedTurns)
  \/ \E a \in HumanIds : \E text \in ShedTexts(State) :
       GamePlay(a, text, ShedTurns)
  \/ \E a \in HumanIds : started /\ LowHand(State) /\ GameCall(a)

ShedSpec == DrainInit /\ [][ShedNext]_vars

(***************************************************************************)
(* The lobby: the game as the maker created it, alone or with the members  *)
(* the command mentioned; the maker invites, adds and removes NPCs, kicks,  *)
(* starts and ends, and ann leaves.  The model follows a game until        *)
(* startGame has run.                                                      *)
(***************************************************************************)
LobbyMentions == {<<>>, <<"ann">>, <<"ann", "bot">>}

\* the values Math.random() takes in the lobby: those of RandomValues and
\* 0.95, with which startGame seeds a WildDrawFour for four players
LobbyRandoms == RandomValues \cup {(19 * RandDen) \div 20}

LobbyInit == GameInitOf(LobbyMentions, LobbyRandoms) /\ probe = NoProbe

\* members leave, are kicked or removed while at most MaxSeats have joined
Few == Len(players) <= MaxSeats

LobbyNext ==
  \/ Few /\ LobbyLeave("ann")
  \/ LobbyStart
  \/ StartGameTimer
  \/ LobbyEnd
  \/ \E ms \in MentionLists : LobbyInvite(ms)
  \/ \E num \in NpcCounts : LobbyNpcAdd(num)
  \/ \E num \in NpcCounts : Few /\ LobbyNpcRemove(num)
  \/ \E ms \in MentionLists : Few /\ LobbyKick(ms)

LobbySpec == LobbyInit /\ [][LobbyNext]_vars

(***************************************************************************)
(* Properties.                                                             *)
(***************************************************************************)
RECURSIVE HandsTotal(_)
HandsTotal(ps) ==
  IF ps = <<>> THEN 0 ELSE Len(Head(ps).hand) + HandsTotal(Tail(ps))

\* the cards of the game: the hands, the pile, and the top card if it is set
CardCount ==
  HandsTotal(players) + Len(discarded) + (IF topCard = NoCard THEN 0 ELSE 1)

\* C1: in every reachable state the cards in all hands, in the pile and on
\* top are 108 together.
C1_CardConservation == CardCount = Len(getHand)

(***************************************************************************)
(* The legality law of a pair of cards, stated on the names of the cards.  *)
(***************************************************************************)
WildKinds == {"WILD", "DRAW_FOUR"}

SpecialKinds == {"SKIP", "REVERSE", "DRAW_TWO", "WILD", "DRAW_FOUR"}

IsLegal(card, top) ==
  \/ FaceKey(card.face) = FaceKey(top.face)
  \/ card.color = top.color
  \/ FaceKey(card.face) \in WildKinds

\* two different special kinds of different colors, the played one not wild
DifferentSpecials(card, top) ==
  /\ FaceKey(card.face) \in SpecialKinds \ WildKinds
  /\ FaceKey(top.face) \in SpecialKinds
  /\ FaceKey(card.face) # FaceKey(top.face)
  /\ card.color # top.color

\* C2: for every pair (card, topCard) the test of the NPC plays and the test
\* of the human plays both accept the card exactly when its rank is the
\* rank of topCard, or its color is the color of topCard, or it is a wild
\* kind; two different special kinds of different colors are refused.
C2_LegalityLaw ==
  probe.checked =>
    /\ probe.npc = IsLegal(probe.card, probe.card2)
    /\ probe.human = IsLegal(probe.card, probe.card2)
    /\ DifferentSpecials(probe.card, probe.card2) =>
         ~probe.npc /\ ~probe.human

\* a Skip was accepted on a Skip of another color by both tests
C2_Witness ==
  /\ probe.checked
  /\ probe.card = Card(SKIP, BLUE)
  /\ probe.card2 = Card(SKIP, RED)
  /\ probe.npc
  /\ probe.human

(***************************************************************************)
(* Properties of one step.  In an action formula the unprimed variables    *)
(* are the state before the handler and last' tells which handler ran.     *)
(***************************************************************************)
\* the handler played a card from the hand of the player whose turn it was
PlayedFromHand ==
  /\ last'.kind \in {"play", "npcTurn"}
  /\ last'.played # NoCard
  /\ HasPlayer(State, turn)

HandOf(ps, i) == ps[i + 1].hand

\* the hands of all players but the one at index i are the same in ps and qs
OthersKeep(ps, qs, i) ==
  /\ Len(ps) = Len(qs)
  /\ \A j \in 0..(Len(ps) - 1) : j # i => HandOf(ps, j) = HandOf(qs, j)

\* C3: a play of the current human player that is rejected leaves every
\* hand, the pile, topCard, turn, previousTurn, direction and all calledUno
\* flags as they were, and the same player is still current.
C3_RejectedPlayChangesNothing ==
  [][last'.kind = "rejected" =>
       /\ players' = players
       /\ discarded' = discarded
       /\ topCard' = topCard
       /\ turn' = turn
       /\ previousTurn' = previousTurn
       /\ direction' = direction
       /\ IsCurrent(State, last'.id)]_vars

\* a play of the current player has just been rejected
C3_Witness ==
  /\ last.kind = "rejected"
  /\ started
  /\ IsCurrent(State, last.id)

\* C4: an accepted play of a card without effect that does not empty the
\* hand takes exactly that card out of the mover's hand, appends the old
\* topCard to the pile and leaves every other hand as it was.
C4_PlainPlay ==
  [][(PlayedFromHand /\ IsPlain(last'.played.face) /\ ~last'.won) =>
       /\ \E i \in 1..Len(HandOf(players, turn)) :
            /\ HandOf(players, turn)[i] = last'.played
            /\ HandOf(players', turn) = RemoveAt(HandOf(players, turn), i)
       /\ Len(HandOf(players', turn)) = Len(HandOf(players, turn)) - 1
       /\ discarded' = Append(discarded, topCard)
       /\ OthersKeep(players, players', turn)]_vars

\* two players, right after the first play of the game: the pile holds 94
\* cards, the mover 6 and the other player 7
C4_Witness ==
  /\ last.kind = "play"
  /\ IsPlain(last.played.face)
  /\ ~last.won
  /\ Len(players) = 2
  /\ Len(discarded) = 94
  /\ Len(HandOf(players, previousTurn)) = 6
  /\ Len(HandOf(players, turn)) = 7

\* C5: after an accepted play topCard is the played card: a card that is
\* not wild with its own color, a wild card with the color the player
\* chose (a human names it, an NPC takes one of the four colors); the
\* cards that are legal next are those of that color, of the same face, and
\* the wild kinds.
C5_TopIsPlayedCard ==
  [][PlayedFromHand =>
       /\ \E i \in 1..Len(HandOf(players, turn)) :
            LET card == HandOf(players, turn)[i]
            IN /\ topCard'.face = card.face
               /\ IF HasEffect(card.face, WILD_EFFECT)
                  THEN topCard'.color \in {RED, BLUE, GREEN, YELLOW}
                  ELSE topCard'.color = card.color
       /\ last'.kind = "play" => topCard' = parseToCard(last'.text)
       /\ \A c \in Cards :
            checkCard(c, topCard') <=>
              \/ c.color = topCard'.color
              \/ c.face = topCard'.face
              \/ c.face \in {WILD, DRAW_FOUR}]_vars

\* a human has just played a Wild and chosen green
C5_Witness ==
  /\ last.kind = "play"
  /\ last.text = <<"GREEN", "WILD">>
  /\ topCard = Card(WILD, GREEN)

\* C6: when the first turn of a game is at participant 0, the direction is
\* +1 and only N plays of cards without effect have moved the turn since,
\* the turn is at N mod the number of participants.
C6_TurnOrder ==
  (started /\ order.first = 0 /\ order.n >= 0 /\ direction = 1) =>
    turn = order.n % Len(players)

\* three plays of cards without effect after a first turn at participant 0
C6_Witness ==
  /\ started
  /\ order.first = 0
  /\ order.n = 3
  /\ direction = 1
  /\ turn = 3 % Len(players)

\* C7: with exactly two participants a Reverse that is not the last card of
\* the hand flips the direction and leaves the turn with the participant
\* who played it; the hand of the other participant is as it was.
C7_ReverseOfTwo ==
  [][(PlayedFromHand /\ last'.played.face = REVERSE /\ ~last'.won
        /\ Len(players) = 2) =>
       /\ direction' = -1 * direction
       /\ turn' = turn
       /\ previousTurn' = turn
       /\ OthersKeep(players, players', turn)]_vars

\* a human has just played a Reverse in a game of two and is current again
C7_Witness ==
  /\ last.kind = "play"
  /\ last.played.face = REVERSE
  /\ ~last.won
  /\ Len(players) = 2
  /\ started
  /\ turn = previousTurn
  /\ IsCurrent(State, last.id)

\* the player who moved last played down to one card and did not call, and
\* the turn has passed to another player
Forgot ==
  /\ last.kind \in {"play", "npcTurn"}
  /\ last.played # NoCard
  /\ started
  /\ HasPlayer(State, previousTurn)
  /\ HasPlayer(State, turn)
  /\ previousTurn # turn
  /\ Len(HandOf(players, previousTurn)) = 1
  /\ ~PlayerAt(State, previousTurn).calledUno

\* the handler is a low-hand call of another member, or the catch of the
\* NPC whose turn it is (lines 1088-1096)
CallOfOther ==
  \/ last'.kind = "call" /\ last'.id # PlayerAt(State, previousTurn).id
  \/ /\ last'.kind = "npcTurn"
     /\ PlayerAt(State, turn).npc
     /\ RandBelowProb(rand)

\* C9 with a play as the next action: when the next action after the play
\* down to one card is a play of another participant, the hand becomes 3
\* cards
C9_EnforcedByPlay ==
  [][(Forgot /\ PlayedFromHand) =>
       Len(HandOf(players', previousTurn)) = 3]_vars

\* C9: when participant P has played down to one card without calling and
\* the next action is a low-hand call of another participant (an "uno"
\* message, or the catch of the NPC whose turn it is) while the pile holds
\* at least 2 cards, P's hand becomes 3 cards; when the next action is a
\* play of another participant of a card that makes nobody draw, nothing
\* is enforced: P's hand stays as it is and P still has not called.
C9_EnforcedByCall ==
  [][Forgot =>
       /\ (CallOfOther /\ Len(discarded) >= 2) =>
            /\ Len(HandOf(players', previousTurn)) = 3
            /\ Len(discarded') = Len(discarded) - 2
       /\ (PlayedFromHand /\ ~last'.won
             /\ ~HasEffect(last'.played.face, DRAW_TWO_EFFECT)
             /\ ~HasEffect(last'.played.face, DRAW_FOUR_EFFECT)) =>
            /\ HandOf(players', previousTurn) = HandOf(players, previousTurn)
            /\ ~players'[previousTurn + 1].calledUno]_vars

\* another participant has just played, and a participant who did not call
\* still holds exactly one card
C9_Witness ==
  /\ last.kind \in {"play", "npcTurn"}
  /\ last.played # NoCard
  /\ started
  /\ HasPlayer(State, previousTurn)
  /\ \E p \in 0..(Len(players) - 1) :
       /\ p # previousTurn
       /\ Len(HandOf(players, p)) = 1
       /\ ~PlayerAt(State, p).calledUno

\* C10: a low-hand call that is processed twice in a row leaves the state
\* the first call left: the second call changes nothing, so a participant
\* who forgot to call draws the 2 penalty cards at most once.
C10_CallIdempotent ==
  [][(last.kind = "call" /\ last'.kind = "call" /\ last'.id = last.id) =>
       gameVars' = gameVars]_vars

\* the same call has just been processed a second time, after the first one
\* made the previous player draw the penalty
C10_Witness ==
  /\ last.kind = "call"
  /\ last.again
  /\ started
  /\ HasPlayer(State, previousTurn)
  /\ PlayerAt(State, previousTurn).id # last.id
  /\ Len(HandOf(players, previousTurn)) = 3
  /\ ~PlayerAt(State, previousTurn).calledUno

\* the handler played a card of the given draw effect that was not the
\* last card of the hand
DrawPlay(effect) ==
  /\ PlayedFromHand
  /\ HasEffect(last'.played.face, effect)
  /\ ~last'.won

\* the participant after participant t in the direction of play
Following(t) == (t + direction) % Len(players)

\* the participant next to the mover in the direction of play
Victim == Following(turn)

Min(a, b) == IF a < b THEN a ELSE b

\* the play makes the participant next in the direction of play draw k
\* cards and skips them: the turn passes to the participant after them,
\* the mover's hand shrinks by the played card, no other hand changes
DrawLaw(k) ==
  /\ Len(players') = Len(players)
  /\ turn' = Following(Victim)
  /\ direction' = direction
  /\ \A j \in 0..(Len(players) - 1) :
       Len(HandOf(players', j)) =
         Len(HandOf(players, j)) + (IF j = Victim THEN k ELSE 0)
           - (IF j = turn THEN 1 ELSE 0)
  /\ Len(discarded') = Len(discarded) + 1 - k

CallBy(caller) ==
  \/ last'.kind \in {"call", "npcCall"} /\ last'.id = caller
  \/ /\ last'.kind = "npcTurn"
     /\ HasPlayer(State, turn)
     /\ HasPlayer(State, previousTurn)
     /\ PlayerAt(State, turn).npc
     /\ PlayerAt(State, turn).id = caller
     /\ ~PlayerAt(State, previousTurn).calledUno
     /\ Len(HandOf(players, previousTurn)) = 1
     /\ RandBelowProb(rand)

\* a participant is current, and the previous participant holds exactly one
\* card, has not called and is not the caller
Uncalled(caller) ==
  /\ HasPlayer(State, turn)
  /\ HasPlayer(State, previousTurn)
  /\ Len(HandOf(players, previousTurn)) = 1
  /\ ~PlayerAt(State, previousTurn).calledUno
  /\ PlayerAt(State, previousTurn).id # caller

\* the previous participant draws k cards from the pile; the turn, the
\* previous turn, the direction, the top card and all other hands stay
Penalty(k) ==
  /\ Len(players') = Len(players)
  /\ Len(HandOf(players', previousTurn)) = 1 + k
  /\ \E i \in 1..(1 + k) :
       HandOf(players', previousTurn)[i] = HandOf(players, previousTurn)[1]
  /\ Len(discarded') = Len(discarded) - k
  /\ OthersKeep(players, players', previousTurn)
  /\ turn' = turn
  /\ previousTurn' = previousTurn
  /\ direction' = direction
  /\ topCard' = topCard

KeepsCard(p) ==
  /\ HasPlayer(State, p)
  /\ PlayerAt(State, p).calledUno
  /\ Len(HandOf(players, p)) = 1
  /\ Len(players') > p
  /\ players'[p + 1].id = PlayerAt(State, p).id
  /\ HandOf(players', p) = HandOf(players, p)

C14_WinLaw ==
  [][/\ last'.won => (~started' /\ turn' = -1)
     /\ (~started /\ starts > 0 /\ last'.kind # "startGame") =>
          /\ Len(players') <= Len(players)
          /\ \A j \in 1..Len(players') : players'[j].hand = <<>>
          /\ topCard' = topCard
          /\ Len(discarded') = Len(discarded)]_vars

\* the game has ended: it was aborted, or a participant emptied their hand
\* (endGame has run: the game is not started and a card lies on top)
Ended == deleted \/ (~started /\ topCard # NoCard)

SeedDraw(top) ==
  IF HasEffect(top.face, DRAW_FOUR_EFFECT) THEN 4
  ELSE IF HasEffect(top.face, DRAW_TWO_EFFECT) THEN 2
  ELSE 0

\* C16 as stated: after startGame every participant holds exactly 7 cards,
\* a card is on top, and the pile holds 108 - 7n - 1 cards
C16_StartState ==
  [][last'.kind = "startGame" =>
       /\ \A j \in 0..(Len(players) - 1) : Len(HandOf(players', j)) = DealSize
       /\ topCard' # NoCard
       /\ Len(discarded') = 108 - DealSize * Len(players) - 1]_vars

\* C16: immediately after startGame completes with n participants, a seed
\* card is the topCard, every participant holds exactly 7 cards, but for a
\* seed DrawTwo (resp. WildDrawFour), which makes the participant before the
\* current one in the direction of play hold 9 (resp. 11), and the pile has
\* lost the 7n dealt cards, the seed card and the 2 (resp. 4) drawn cards:
\* at the first start of a game it holds 108 - 7n - 1 cards, less 2 (resp.
\* 4).
C16_StartLaw ==
  [][last'.kind = "startGame" =>
       /\ Len(players') = Len(players)
       /\ started'
       /\ topCard' # NoCard
       /\ HasPlayer(State, turn')
       /\ \A j \in 0..(Len(players) - 1) :
            Len(HandOf(players', j)) =
              DealSize + (IF j = (turn' - direction') % Len(players)
                          THEN SeedDraw(topCard') ELSE 0)
       /\ Len(discarded') =
            Len(discarded) + (IF topCard # NoCard THEN 1 ELSE 0)
              - DealSize * Len(players) - 1 - SeedDraw(topCard')
       /\ (starts = 1 /\ AllHands(players) = <<>>) =>
            Len(discarded') =
              108 - DealSize * Len(players) - 1 - SeedDraw(topCard')]_vars

\* startGame has just run with a WildDrawFour as seed card
C16_Witness ==
  /\ last.kind = "startGame"
  /\ SeedDraw(topCard) = 4
  /\ Len(discarded) = 108 - DealSize * Len(players) - 5

AddRejected == last'.kind \in {"inviteRejected", "npcAddRejected"}

\* C18 as stated: a request to add participants that is rejected leaves the
\* list of participants exactly as it was
C18_AllOrNothing == [][AddRejected => players' = players]_vars

\* C18: a request to add participants (an invite, or "uno npc add k") never
\* takes the game past 10 participants and never removes or reorders
\* anyone; a request that would take it past 10 is reported as failed, but
\* it is carried out up to the limit: the participants it names are added
\* in order until the game holds 10, and only the rest is dropped.
C18_FillsToLimit ==
  [][last'.kind \in {"invite", "inviteRejected", "npcAdd", "npcAddRejected"} =>
       /\ Len(players') >= Len(players)
       /\ Len(players') <= maxPlayerCount
       /\ SubSeq(players', 1, Len(players)) = players
       /\ AddRejected => Len(players') = maxPlayerCount
       /\ UNCHANGED <<discarded, topCard, turn, started, collector>>]_vars

\* "uno npc add" has just been reported as failed in a game of 10
C18_Witness ==
  /\ last.kind = "npcAddRejected"
  /\ Len(players) = maxPlayerCount
  /\ collector = "lobby"

\* C19: while a game is in progress (it is started and has not been
\* aborted), turn is a valid index into the list of participants:
\* 0 <= turn < number of participants, so exactly one participant is current.
C19_TurnIsValid ==
  (started /\ ~deleted) => (0 <= turn /\ turn < Len(players))

\* C20: when the current participant of a started game is removed ("uno
\* leave" of the current participant, or a kick of them) and another
\* participant is left, their whole hand is moved into the pile and the
\* participant who followed them in the direction of play is current, at
\* whatever index the removed participant was.
C20_RemoveCurrent ==
  [][(/\ last'.kind \in {"leave", "kick"}
      /\ started
      /\ Len(players) >= 2
      /\ HasPlayer(State, turn)
      /\ PlayerAt(State, turn).id = last'.id) =>
       /\ ~last'.threw
       /\ Len(players') = Len(players) - 1
       /\ discarded' = discarded \o HandOf(players, turn)
       /\ 0 <= turn' /\ turn' < Len(players')
       /\ players'[turn' + 1].id = PlayerAt(State, Following(turn)).id]_vars

\* C21: in every state of a game that has not been aborted, the maker of the
\* game is in the list of participants.
C21_MakerStays ==
  ~deleted => \E i \in 1..Len(players) : players[i].id = MakerId

\* the card c was taken from the hand of the participant at index t: it lay
\* in that hand (a wild card with whatever color), and unless the play
\* emptied the hand, the hand is now that hand without it
TakenFrom(t, c) ==
  \E i \in 1..Len(HandOf(players, t)) :
    /\ HandOf(players, t)[i].face = c.face
    /\ HasEffect(c.face, WILD_EFFECT) \/ HandOf(players, t)[i].color = c.color
    /\ \/ last'.won
       \/ /\ Len(players') = Len(players)
          /\ HandOf(players', t) = RemoveAt(HandOf(players, t), i)

\* C22: every accepted play takes its card from the hand of the participant
\* who is current when it is accepted, and a human play is accepted only
\* from the current participant; every accepted draw adds its card to the
\* hand of the current participant and to no other hand; a play or draw
\* message of a member who is not current changes no hand, not the pile,
\* topCard or turn.
C22_OnePlayPerTurn ==
  [][/\ (last'.kind \in {"play", "npcTurn"} /\ last'.played # NoCard) =>
          /\ HasPlayer(State, turn)
          /\ last'.kind = "play" => last'.id = PlayerAt(State, turn).id
          /\ last'.kind = "npcTurn" => PlayerAt(State, turn).npc
          /\ Len(players) >= 2 => TakenFrom(turn, last'.played)
     /\ last'.kind = "draw" =>
          /\ HasPlayer(State, turn)
          /\ last'.id = PlayerAt(State, turn).id
          /\ Len(HandOf(players', turn)) =
               Len(HandOf(players, turn)) + Min(1, Len(discarded))
          /\ OthersKeep(players, players', turn)
          /\ topCard' = topCard
     /\ last'.kind \in {"ignored", "rejected"} =>
          /\ players' = players
          /\ discarded' = discarded
          /\ topCard' = topCard
          /\ turn' = turn]_vars

(***************************************************************************)
(* The games of Spec and the games of ann, the maker and an NPC that was   *)
(* added in the lobby, in which every timer that can fire does fire.       *)
(***************************************************************************)
NpcNext == Next \/ (Len(players) < MaxSeats /\ LobbyNpcAdd(1))

NpcSpec ==
  /\ Init
  /\ [][NpcNext]_vars
  /\ WF_vars(StartGameTimer)
  /\ WF_vars(FinishSetupTimer)
  /\ WF_vars(PlayCardTimer)
  /\ WF_vars(CallUnoTimer)

\* the game is in progress and the current participant is an NPC
NpcIsCurrent == started /\ HasPlayer(State, turn) /\ PlayerAt(State, turn).npc

\* C23: in a game in progress whose current participant is an NPC, a timer
\* that runs playCard for the NPC is pending; only such a timer makes an NPC
\* take its turn, so without one the game waits on the NPC for ever.
C23_NpcProgress ==
  NpcIsCurrent => \E i \in 1..Len(timers) : timers[i].kind = "play"

\* the number of cards of the deck that equal card
Copies(deck, card) == Cardinality({i \in 1..Len(deck) : deck[i] = card})

\* 108 cards: per color one 0 and two each of 1-9, Skip, Reverse and DrawTwo,
\* and four Wild and four WildDrawFour of no color
IsStandardDeck(deck) ==
  /\ Len(deck) = 108
  /\ \A c \in {RED, GREEN, YELLOW, BLUE} :
       /\ Copies(deck, Card(0, c)) = 1
       /\ \A f \in (1..9) \cup {SKIP, REVERSE, DRAW_TWO} :
            Copies(deck, Card(f, c)) = 2
  /\ Copies(deck, Card(WILD, NONE)) = 4
  /\ Copies(deck, Card(DRAW_FOUR, NONE)) = 4

\* C24: the deck of getHand, which is the draw pile of a game that has just
\* been created, holds exactly the 108 cards of the standard deck.
C24_Deck ==
  /\ IsStandardDeck(getHand)
  /\ last.kind = "create" => IsStandardDeck(discarded)

\* a game has just been created with its draw pile
C24_Witness ==
  /\ last.kind = "create"
  /\ discarded = getHand
  /\ Len(players) = 3

\* the positions of the hands of ps: <<player, index>>
HandSlots(ps) ==
  UNION {{<<p, i>> : i \in 1..Len(ps[p].hand)} : p \in 1..Len(ps)}

\* how many cards that satisfy T lie in the hands, in the pile and on top
CountCards(ps, pile, top, T(_)) ==
  Cardinality({h \in HandSlots(ps) : T(ps[h[1]].hand[h[2]])})
  + Cardinality({i \in 1..Len(pile) : T(pile[i])})
  + (IF top # NoCard /\ T(top) THEN 1 ELSE 0)

\* how many wild cards without a color there are
Colorless(ps, pile, top) ==
  CountCards(ps, pile, top, LAMBDA c : IsWild(c) /\ c.color = NONE)

\* how many cards that are not wild there are in the color col
PlainOf(col, ps, pile, top) ==
  CountCards(ps, pile, top, LAMBDA c : ~IsWild(c) /\ c.color = col)

\* only a wild card has the color NONE, in a hand, in the pile or on top
OnlyWildsColorless(ps, pile, top) ==
  CountCards(ps, pile, top, LAMBDA c : ~IsWild(c) /\ c.color = NONE) = 0

\* a card that is not wild has a color and never changes it: no color gains
\* a card that is not wild
PlainKeepColor ==
  /\ OnlyWildsColorless(players, discarded, topCard)
  /\ OnlyWildsColorless(players', discarded', topCard')
  /\ \A col \in Colors :
       PlainOf(col, players', discarded', topCard')
         <= PlainOf(col, players, discarded, topCard)

\* C25 as stated: only wild cards have the color NONE, a card that is not
\* wild never changes color, and a wild card that has been given a color is
\* never without color again: the number of wild cards without a color
\* never grows.
C25_ColorStays ==
  [][/\ PlainKeepColor
     /\ Colorless(players', discarded', topCard')
          <= Colorless(players, discarded, topCard)]_vars

\* a wild card in a hand has no color and a wild card on top has one
WildLaw(ps, top) ==
  /\ top # NoCard => top.color # NONE
  /\ \A h \in HandSlots(ps) :
       IsWild(ps[h[1]].hand[h[2]]) => ps[h[1]].hand[h[2]].color = NONE

\* C25: only wild cards have the color NONE, a card that is not wild never
\* changes color, a wild card on top has a color, which it keeps in the
\* pile, and a wild card in a hand has none: drawCards takes the color away
\* from the wild card it draws.
C25_ColorLaw ==
  [][/\ PlainKeepColor
     /\ WildLaw(players, topCard)
     /\ WildLaw(players', topCard')
     /\ Colorless(players', discarded', topCard')
          > Colorless(players, discarded, topCard)
        => Cardinality(HandSlots(players')) >= Cardinality(HandSlots(players))]_vars

\* a wild card that was played and given a color lies in the draw pile, and
\* a card has just been drawn
C25_Witness ==
  /\ \E i \in 1..Len(discarded) :
       IsWild(discarded[i]) /\ discarded[i].color # NONE
  /\ last.kind = "draw"

\* how many cards of face f the sequence holds
OfFace(cards, f) == Cardinality({i \in 1..Len(cards) : cards[i].face = f})

\* the numbers of cards that drawAndSkip is asked to draw
DrawCounts == {1, 2, 4}

\* t is s after the current participant of s drew count cards and the turn
\* passed on: the hand gained count cards, which left the pile, the flag of
\* the participant is down, the turn is one step on, and topCard, direction,
\* previousTurn and the other hands are those of s
DrewAndPassed(s, t, count) ==
  /\ ~t.threw
  /\ OthersKeep(s.players, t.players, s.turn)
  /\ Len(HandOf(t.players, s.turn)) = Len(HandOf(s.players, s.turn)) + count
  /\ Len(t.discarded) = Len(s.discarded) - count
  /\ \A f \in Faces :
       \A k \in {OfFace(HandOf(t.players, s.turn), f)
                   - OfFace(HandOf(s.players, s.turn), f)} :
         /\ k >= 0
         /\ k > 0 => OfFace(s.discarded, f) - OfFace(t.discarded, f) = k
  /\ ~PlayerAt(t, s.turn).calledUno
  /\ t.turn = (s.turn + s.direction) % Len(s.players)
  /\ t.topCard = s.topCard
  /\ t.direction = s.direction
  /\ t.previousTurn = s.previousTurn

\* C26: in every state of a game in progress in which somebody is current
\* and the pile holds count cards, drawAndSkip(count) gives count cards of
\* the pile to that participant, clears their calledUno, moves the turn one
\* step in the direction of play and leaves topCard, direction, previousTurn
\* and every other hand alone.
C26_DrawFrame ==
  \A count \in DrawCounts :
    (started /\ HasPlayer(State, turn) /\ Len(discarded) >= count) =>
      \A t \in {drawAndSkip(State, count, rand)} :
        DrewAndPassed(State, t, count)

\* the current participant of a game of three has just drawn a card by
\* drawAndSkip, and the game goes on
C26_Witness ==
  /\ last.kind = "draw"
  /\ ~last.threw
  /\ Len(players) = 3
  /\ started

\* the timers that will run playCard
PlayTimers(ts) == Cardinality({i \in 1..Len(ts) : ts[i].kind = "play"})

\* C27: when the participant at index i of three or more plays a Skip that
\* is not their last card while the direction is d, the participant at i + d
\* keeps their hand and gets no timer to play, the direction stays d, and
\* the participant at i + 2d is current.
C27_SkipOneStep ==
  [][(PlayedFromHand /\ last'.played.face = SKIP /\ ~last'.won
        /\ Len(players) >= 3) =>
       /\ ~last'.threw
       /\ turn' = (turn + 2 * direction) % Len(players)
       /\ direction' = direction
       /\ previousTurn' = turn
       /\ OthersKeep(players, players', turn)
       /\ last'.kind = "play" =>
            PlayTimers(timers') = PlayTimers(timers)
              + (IF PlayerAt(State', turn').npc THEN 1 ELSE 0)]_vars

\* a participant of a game of three has just played a Skip that was not
\* their last card
C27_Witness ==
  /\ last.kind \in {"play", "npcTurn"}
  /\ last.played.face = SKIP
  /\ ~last.won
  /\ ~last.threw
  /\ Len(players) = 3
  /\ started
  /\ HasPlayer(State, previousTurn)
  /\ turn = (previousTurn + 2 * direction) % 3

\* C28: when the participant at index i of three or more plays a Reverse
\* that is not their last card while the direction is d, the direction
\* becomes -d and the participant at i - d is current, and no other hand
\* changes; the direction is 1 or -1 in every state, and a step changes it
\* only by putting a Reverse on top.
C28_Reverse ==
  [][/\ (PlayedFromHand /\ last'.played.face = REVERSE /\ ~last'.won
           /\ Len(players) >= 3) =>
          /\ ~last'.threw
          /\ direction' = -1 * direction
          /\ turn' = (turn - direction) % Len(players)
          /\ previousTurn' = turn
          /\ OthersKeep(players, players', turn)
     /\ direction \in {1, -1}
     /\ direction' \in {1, -1}
     /\ direction' # direction =>
          /\ last'.played # NoCard
          /\ last'.played.face = REVERSE
          /\ topCard'.face = REVERSE
          /\ ~last'.won]_vars

\* a participant of a game of three has just played a Reverse that was not
\* their last card, against the first direction of play
C28_Witness ==
  /\ last.kind \in {"play", "npcTurn"}
  /\ last.played.face = REVERSE
  /\ ~last.won
  /\ ~last.threw
  /\ Len(players) = 3
  /\ started
  /\ direction = -1
  /\ HasPlayer(State, previousTurn)
  /\ turn = (previousTurn + direction) % 3

RematchTurns == 40

RematchNext ==
  \/ LobbyStart
  \/ GameKick(<<"bot">>)
  \/ \E a \in HumanIds : \E text \in PlayTexts(State) :
       GamePlay(a, text, RematchTurns)
  \/ \E a \in HumanIds : Stuck(State) /\ GameDraw(a, RematchTurns)
  \/ StartGameTimer
  \/ FinishSetupTimer
  \/ PlayCardTimer

RematchInit ==
  /\ GameInitOf({<<"ann", "bot">>}, {(207 * RandDen) \div 250})
  /\ probe = NoProbe

RematchSpec == RematchInit /\ [][RematchNext]_vars

\* the faces of the cards with an effect on the turn or on a hand
EffectFaces == {SKIP, REVERSE, DRAW_TWO, DRAW_FOUR}

\* C30: a play of a Skip, Reverse, DrawTwo or WildDrawFour that empties the
\* hand of the participant who plays it flips no direction and makes nobody
\* draw: when the handler is done every hand is empty, the pile holds 107
\* cards and the card that won is topCard.
C30_WinNoEffect ==
  [][(last'.won /\ last'.played.face \in EffectFaces) =>
       /\ direction' = direction
       /\ Len(players') = Len(players)
       /\ \A j \in 1..Len(players') : players'[j].hand = <<>>
       /\ Len(discarded') = 107
       /\ topCard' = last'.played
       /\ ~started']_vars

\* a participant of a game of three has just won with a card that has an
\* effect, against a top card that was no such card
C30_Witness ==
  /\ last.won
  /\ last.played.face \in EffectFaces
  /\ topCard = last.played
  /\ Len(discarded) = 107
  /\ ~started

\* C31: once a card lies on top, the top card has one of the four colors.
C31_ActiveColor ==
  topCard # NoCard => topCard.color \in {RED, BLUE, GREEN, YELLOW}

\* a wild card that a participant played lies on top of a game in progress
C31_Witness ==
  /\ started
  /\ topCard # NoCard
  /\ IsWild(topCard)
  /\ last.kind \in {"play", "npcTurn"}
  /\ last.played = topCard

(***************************************************************************)
(* A game of an NPC and the maker, or of ann, an NPC and the maker, in     *)
(* which the NPC takes its turns and the humans never play: on their turn  *)
(* they send "uno!" when the participant before them holds one card and    *)
(* has not called, and "draw" otherwise.                                   *)
(***************************************************************************)
\* the moves the game is followed for
NpcDrainTurns == 160

\* the participant before the current one holds one card and has not called
Catchable(s) ==
  /\ HasPlayer(s, s.turn) /\ HasPlayer(s, s.previousTurn)
  /\ Len(PlayerAt(s, s.previousTurn).hand) = 1
  /\ ~PlayerAt(s, s.previousTurn).calledUno

NpcDrainInit ==
  /\ GameInitOf({<<"bot">>, <<"ann", "bot">>}, RandomValues)
  /\ probe = NoProbe

NpcDrainNext ==
  \/ LobbyStart
  \/ StartGameTimer
  \/ \E a \in HumanIds : ~Catchable(State) /\ GameDraw(a, NpcDrainTurns)
  \/ \E a \in HumanIds : IsCurrent(State, a) /\ Catchable(State) /\ GameCall(a)
  \/ NpcTurnTimer(NpcDrainTurns)
  \/ CallUnoTimer

NpcDrainSpec == NpcDrainInit /\ [][NpcDrainNext]_vars

\* an NPC is the current participant of a game in progress and its callback
\* goes on to its own turn: nobody before it is caught
NpcTakesTurn ==
  /\ started
  /\ HasPlayer(State, turn) /\ PlayerAt(State, turn).npc
  /\ previousTurn > -1 => /\ HasPlayer(State, previousTurn)
                          /\ ~(/\ ~PlayerAt(State, previousTurn).calledUno
                               /\ Len(PlayerAt(State, previousTurn).hand) = 1
                               /\ RandBelowProb(rand))

\* the card is the card of the hand, whatever color a wild card was given
SameCard(card, held) ==
  /\ card # NoCard
  /\ card.face = held.face
  /\ IsWild(held) \/ card.color = held.color

\* the hand keeps its cards in the order it had, new cards come to the front
\* and at most one card leaves
KeepsOrder(old, new) ==
  \/ new = old
  \/ /\ Len(new) >= Len(old)
     /\ SubSeq(new, Len(new) - Len(old) + 1, Len(new)) = old
  \/ /\ Len(new) + 1 >= Len(old)
     /\ \E j \in 1..Len(old) :
          SubSeq(new, Len(new) - Len(old) + 2, Len(new)) = RemoveAt(old, j)

\* every NPC that stays in the game keeps the order of its hand
NpcHandsKeepOrder ==
  (started /\ started') =>
    \A i \in 1..Len(players) : \A j \in 1..Len(players') :
      (players[i].npc /\ players'[j].id = players[i].id)
        => KeepsOrder(players[i].hand, players'[j].hand)

\* the NPC plays the legal card that lies deepest in its hand, or draws
\* drawn cards and ends its turn without a play
NpcPlaysOldestOrDraws(drawn) ==
  (NpcTakesTurn /\ last'.kind = "npcTurn") =>
    LET me == PlayerAt(State, turn)
        legal == LegalPositions(me.hand, topCard)
    IN IF legal # {}
       THEN \E j \in legal :
              /\ \A k \in legal : k <= j
              /\ SameCard(last'.played, me.hand[j])
              /\ players'[turn + 1].id = me.id
              /\ players'[turn + 1].hand = RemoveAt(me.hand, j)
       ELSE /\ last'.played = NoCard /\ topCard' = topCard
            /\ players'[turn + 1].id = me.id
            /\ Len(players'[turn + 1].hand) = Len(me.hand) + drawn
            /\ Len(discarded') = Len(discarded) - drawn
            /\ turn' # turn /\ previousTurn' = previousTurn

\* C32: an NPC whose callback takes its turn plays the legal card of its hand
\* that it has held longest: hands keep new cards in front, and the card played
\* is the last legal one; with no legal card it draws one card, or none from an
\* empty pile, and its turn ends without a play.
C32_NpcPolicy ==
  [][/\ NpcHandsKeepOrder
     /\ NpcPlaysOldestOrDraws(Min(1, Len(discarded)))]_vars

\* C32 as stated: with no legal card the NPC draws exactly one card
C32_DrawsOne == [][NpcPlaysOldestOrDraws(1)]_vars

\* an NPC took its turn and played a card of its hand, and the game goes on
C32_Witness ==
  /\ started /\ last.kind = "npcTurn" /\ last.played # NoCard /\ ~last.won
  /\ HasPlayer(State, previousTurn) /\ PlayerAt(State, previousTurn).npc
  /\ topCard = last.played

(***************************************************************************)
(* Games of an NPC and the maker, or of ann, an NPC and the maker, with a  *)
(* generator that lets the NPC call: the humans play the first card of     *)
(* their hand that can be played; they draw when none can, and may draw    *)
(* when the participant before them holds one card and has not called.     *)
(***************************************************************************)
\* the moves the games are followed for
CatchTurns == 60

\* values of Math.random() below probCallUno
CatchRandoms == {0, RandDen \div 8, RandDen \div 4, (3 * RandDen) \div 8}

CatchInit ==
  /\ GameInitOf({<<"bot">>, <<"ann", "bot">>}, CatchRandoms)
  /\ probe = NoProbe

CatchNext ==
  \/ LobbyStart
  \/ StartGameTimer
  \/ FinishSetupTimer
  \/ \E a \in HumanIds : \E text \in PlayTexts(State) :
       GamePlay(a, text, CatchTurns)
  \/ \E a \in HumanIds :
       (Stuck(State) \/ Catchable(State)) /\ GameDraw(a, CatchTurns)
  \/ NpcTurnTimer(CatchTurns)
  \/ CallUnoTimer

CatchSpec == CatchInit /\ [][CatchNext]_vars

\* an NPC is the current participant of a game in progress and its callback
\* calls to catch the participant at previousTurn
NpcCatches ==
  /\ started
  /\ HasPlayer(State, turn) /\ PlayerAt(State, turn).npc
  /\ HasPlayer(State, previousTurn)
  /\ ~PlayerAt(State, previousTurn).calledUno
  /\ Len(PlayerAt(State, previousTurn).hand) = 1
  /\ RandBelowProb(rand)

\* the seat from which a play of the participant before the current one, in
\* the direction of play, moved the turn on
SeatBefore == (turn - direction + Len(players)) % Len(players)

\* the participant at seat p draws the penalty of two cards, or what the pile
\* still holds, and every other participant keeps their hand
Penalized(p) ==
  /\ Len(players') = Len(players)
  /\ \A i \in 1..Len(players) :
       /\ players'[i].id = players[i].id
       /\ i # p + 1 => players'[i].hand = players[i].hand
  /\ Len(players'[p + 1].hand)
       = Len(players[p + 1].hand) + Min(2, Len(discarded))

\* the callback plays no card, leaves the turn with the NPC and schedules the
\* callback again
TurnStillToCome ==
  /\ last'.played = NoCard /\ ~last'.threw
  /\ turn' = turn /\ previousTurn' = previousTurn /\ topCard' = topCard
  /\ PlayTimers(timers') = PlayTimers(timers)

SelfCalled ==
  /\ Len(players') = Len(players)
  /\ \A i \in 1..Len(players) :
       players'[i].id = players[i].id /\ players'[i].hand = players[i].hand
  /\ players'[turn + 1].calledUno

MaxWords == 3

\* the tokens of the texts: faces by name and by digit, wild faces, colors,
\* the key NONE of Color, and a word that is neither
ParseTokens ==
  {"FIVE", "D1", "SKIP", "WILD", "DRAW_FOUR", "RED", "BLUE", "NONE", "JUNK"}

ParseTexts == UNION {[1..n -> ParseTokens] : n \in 0..MaxWords}

ParseInit ==
  /\ GameInit
  /\ Len(players) = 2
  /\ rand = 0
  /\ probe \in {[text |-> t, parsed |-> NoCard, checked |-> FALSE] :
                  t \in ParseTexts}

\* parseToCard(text) on the text of a message
ParseText ==
  /\ ~probe.checked
  /\ probe' = [probe EXCEPT !.checked = TRUE,
                            !.parsed = parseToCard(probe.text)]
  /\ UNCHANGED <<gameVars, starts, moves, rand, last, order>>

ParseSpec == ParseInit /\ [][ParseText]_vars

\* the names of the four colors
ColorNames == {k \in ColorKeys : Color[k] # NONE}

\* the parse of the text is what its face tokens and color tokens determine:
\* a card iff there is exactly one face token and the face is wild or there
\* is exactly one color token; the color is that of a single color token
ParsesByTokens(text, parsed) ==
  LET faces == SelectSeq(text, LAMBDA t : t \in FaceKeys)
      colors == SelectSeq(text, LAMBDA t : t \in ColorNames)
      color == IF Len(colors) = 1 THEN Color[colors[1]] ELSE NONE
  IN IF Len(faces) = 1
        /\ (HasEffect(CardFace[faces[1]], WILD_EFFECT) \/ Len(colors) = 1)
     THEN parsed = Card(CardFace[faces[1]], color)
     ELSE parsed = NoCard

\* C34: a text parses to a card iff it holds exactly one face token and the
\* face is wild or exactly one color token is present; the card has the face
\* of the face token and the color of the single color token, else NONE.
C34_ParseLaw == probe.checked => ParsesByTokens(probe.text, probe.parsed)

\* C35: whenever a call is processed, from a message "uno!" or from the
\* delayed call of an NPC, the current participant exists, and so does the
\* previous participant unless previousTurn is -1, which callUno tests.
C35_CallFindsParticipants ==
  [][last'.kind \in {"call", "npcCall"} =>
       /\ HasPlayer(State, turn)
       /\ previousTurn > -1 => HasPlayer(State, previousTurn)
       /\ ~last'.threw]_vars

\* C36: when the delayed playCard callback of an NPC fires, the game is in
\* progress and the current participant is an NPC; the callback puts no
\* first card on top and ends without a TypeError.
C36_CallbackForItsTurn ==
  [][last'.kind = "npcTurn" =>
       /\ started /\ turn # -1
       /\ HasPlayer(State, turn) /\ PlayerAt(State, turn).npc
       /\ ~last'.threw]_vars

\* the participant with this id, as a set of one record or none
Seated(ps, id) == {ps[i] : i \in {j \in 1..Len(ps) : ps[j].id = id}}

\* C37: a kick during the game of a participant who is not current leaves
\* the same participant current and the same participant previous, and no
\* remaining participant's hand changes.
C37_RemovalFrame ==
  [][(/\ last'.kind = "kick" /\ started
      /\ Seated(players, last'.id) # {} /\ Seated(players', last'.id) = {}
      /\ HasPlayer(State, turn) /\ PlayerAt(State, turn).id # last'.id) =>
       /\ HasPlayer(State', turn')
       /\ PlayerAt(State', turn').id = PlayerAt(State, turn).id
       /\ (HasPlayer(State, previousTurn)
           /\ PlayerAt(State, previousTurn).id # last'.id) =>
            /\ HasPlayer(State', previousTurn')
            /\ PlayerAt(State', previousTurn').id
                 = PlayerAt(State, previousTurn).id
       /\ \A i \in 1..Len(players') :
            Seated(players, players'[i].id) = {players'[i]}]_vars

\* C38: while a game is in progress, a participant whose calledUno is true
\* holds one or two cards.
C38_CalledLowHand ==
  started =>
    \A i \in 1..Len(players) :
      players[i].calledUno => Len(players[i].hand) \in {1, 2}

\* a participant of a game in progress has called and holds one card
C38_Witness ==
  /\ started
  /\ \E i \in 1..Len(players) :
       players[i].calledUno /\ Len(players[i].hand) = 1

(***************************************************************************)
(* A game of ann and the maker who send "draw" on every turn and never     *)
(* play, past the point where the pile is empty.                           *)
(***************************************************************************)
\* the draws the game is followed for: the pile of 93 cards and some more
DrawOnlyTurns == 96

DrawOnlyNext ==
  \/ LobbyStart
  \/ StartGameTimer
  \/ \E a \in HumanIds : GameDraw(a, DrawOnlyTurns)

DrawOnlySpec == DrainInit /\ [][DrawOnlyNext]_vars

\* C39: in every state of a game in progress in which somebody is current
\* and the pile holds k cards, fewer than the count asked for, drawAndSkip
\* gives exactly those k cards to that participant, leaves the pile empty,
\* throws nothing, and moves the turn one step on as after any other draw.
C39_ExhaustedDraw ==
  \A count \in DrawCounts :
    (started /\ HasPlayer(State, turn) /\ Len(discarded) < count) =>
      \A t \in {drawAndSkip(State, count, rand)} :
        /\ DrewAndPassed(State, t, Len(discarded))
        /\ t.discarded = <<>>

\* a participant sent "draw" when the pile was empty: the pile is empty and
\* more draws were sent than cards have left the pile since the deal
C39_Witness ==
  /\ started /\ last.kind = "draw" /\ ~last.threw
  /\ discarded = <<>>
  /\ moves + 2 * 7 > Len(AllHands(players))

\* C40: no id appears twice in the participant list, and the list never
\* holds more than maxPlayerCount participants.
C40_UniqueIds ==
  /\ \A i, j \in 1..Len(players) : players[i].id = players[j].id => i = j
  /\ Len(players) <= maxPlayerCount

====
